---- MODULE Spec2Model ----
(***************************************************************************)
(* Customer churn engine: the Customer model (server/models/Customer.js)   *)
(* and the customer routes (routes/customers.js, src/unnamed/part_000).    *)
(*                                                                         *)
(* Numbers.  Every score is kept as an exact rational with denominator     *)
(* Scale: the integer x stands for x / Scale.  Scale is the least common   *)
(* denominator of the seven contributions of calculateChurnRisk for        *)
(* integer inputs, so no rounding happens in the model.  The JavaScript    *)
(* code works in IEEE doubles; the inputs used here were chosen so that    *)
(* the double result falls on the same side of 0.3 and 0.7 as the exact    *)
(* value.                                                                  *)
(*                                                                         *)
(* Store.  A route handler is cut at its awaits: every segment between two *)
(* awaits is one action, and a Mongoose call that is one MongoDB command   *)
(* (findById, findByIdAndUpdate, findByIdAndDelete, the updateOne sent by  *)
(* save()) is atomic.  save() of a loaded document sends only the paths    *)
(* the handler modified: $set for a scalar whose value changed, $push for  *)
(* an array push.                                                          *)
(***************************************************************************)
EXTENDS Integers, Sequences, FiniteSets, TLC

\* ---------------------------------------------------------------- bounds
MaxCustomers == 2      \* ids ever handed out (ObjectIds are never reused)
MaxProcs     == 2      \* requests in flight at the same time (RaceSpec)
MaxHist      == 2      \* a predict or bulk starts only below this many writes
MaxClock     == 1      \* readings of the wall clock: 0..MaxClock
BulkPop      == 3      \* customers in the store when BulkSpec starts
RacePop      == 2      \* customers in the store when RaceSpec starts
FailPop      == 4      \* customers in the store when FailSpec starts
ListPop      == 3      \* customers in the store when ListSpec starts
AnalyticsPop == 13     \* customers in the store when AnalyticsSpec starts

\* ------------------------------------------------------------- constants
Scale == 900000

Ids         == 1..MaxCustomers
MalformedId == 0       \* a req.params.id that does not cast to an ObjectId
Procs       == 1..MaxProcs

VARIABLES
    store,      \* the customers collection: id -> document, or Absent
    nextId,     \* the next fresh _id
    seeded,     \* seedDatabase() has run
    now,        \* the wall clock read by new Date()
    reqs,       \* the request handlers in flight
    resp,       \* the response sent last
    writes,     \* history: fulfilled save() calls of predict/bulk, per id
    scoreIn,    \* input of the pure scoring functions
    scoreOut,   \* their result
    listed      \* history: the pages of one list query returned so far

vars == <<store, nextId, seeded, now, reqs, resp, writes, scoreIn, scoreOut, listed>>

Absent == [absent |-> TRUE]

\* ---------------------------------------------------------------- helpers
Min(a, b) == IF a < b THEN a ELSE b
Max(a, b) == IF a > b THEN a ELSE b

\* body fields win over the fields of base
Merge(base, body) ==
    [f \in DOMAIN base |-> IF f \in DOMAIN body THEN body[f] ELSE base[f]]

\* -------------------------------------------------- Customer.js: scoring
\* the weights as written, the signs kept
weightsSigned ==
    [daysSinceLastLogin  |-> 25,
     supportTickets      |-> 20,
     loginFrequency      |-> -15,
     contractLength      |-> -10,
     supportSatisfaction |-> -15,
     subscriptionValue   |-> -10,
     productUsage        |-> -5]

\* weights, in hundredths (Math.abs already applied)
weights ==
    [daysSinceLastLogin  |-> 25,
     supportTickets      |-> 20,
     loginFrequency      |-> 15,
     contractLength      |-> 10,
     supportSatisfaction |-> 15,
     subscriptionValue   |-> 10,
     productUsage        |-> 5]

\* (num / den) * (w / 100), as a multiple of 1/Scale; the division is exact
Term(num, den, w) == num * ((w * Scale) \div (den * 100))

\* a base risk of one quarter
BaseRiskQuarter == Scale \div 4

BaseRisk == Scale \div 2

\* the seven amounts added to the base risk, one per `risk +=` line
Contribution(c) ==
    [daysSinceLastLogin  |->
        Term(c.features.daysSinceLastLogin, 30, weights.daysSinceLastLogin),
     supportTickets      |->
        Term(Min(c.supportTickets, 10), 10, weights.supportTickets),
     loginFrequency      |->
        Term(30 - Min(c.loginFrequency, 30), 30, weights.loginFrequency),
     contractLength      |->
        Term(36 - Min(c.contractLength, 36), 36, weights.contractLength),
     supportSatisfaction |->
        Term(10 - c.features.supportSatisfaction, 10, weights.supportSatisfaction),
     subscriptionValue   |->
        Term(10000 - Min(c.subscriptionValue, 10000), 10000,
             weights.subscriptionValue),
     productUsage        |->
        Term(100 - Min(c.features.productUsage, 100), 100, weights.productUsage)]

RawRisk(c) ==
    LET k == Contribution(c)
    IN  BaseRisk + k.daysSinceLastLogin + k.supportTickets + k.loginFrequency
        + k.contractLength + k.supportSatisfaction + k.subscriptionValue
        + k.productUsage

\* the sum returned without the final Math.max(0, Math.min(1, risk))
calculateChurnRiskNoClamp(c) == RawRisk(c)

\* the sum started from the stored score instead of the base risk
calculateChurnRiskDrift(c) == Max(0, Min(Scale, RawRisk(c) - BaseRisk + c.churnRisk))

calculateChurnRisk(c) == Max(0, Min(Scale, RawRisk(c)))

LowCut  == (3 * Scale) \div 10
HighCut == (7 * Scale) \div 10

\* the cutoffs compared with <= instead of <
determineStatusInclusive(churnRisk) ==
    IF churnRisk <= LowCut THEN "active"
    ELSE IF churnRisk <= HighCut THEN "at_risk"
    ELSE "churned"

determineStatus(churnRisk) ==
    IF churnRisk < LowCut THEN "active"
    ELSE IF churnRisk < HighCut THEN "at_risk"
    ELSE "churned"

\* a level with two bands only
riskLevelTwoBands(churnProbability) ==
    IF churnProbability < LowCut THEN "low" ELSE "medium"

\* routes: const riskLevel = ...
riskLevel(churnProbability) ==
    IF churnProbability < LowCut THEN "low"
    ELSE IF churnProbability < HighCut THEN "medium"
    ELSE "high"

\* the same rules pushed in the opposite order
factorsReversed(c) ==
    (IF c.loginFrequency < 5 THEN <<"Low engagement">> ELSE <<>>)
    \o (IF c.features.supportSatisfaction < 6 THEN <<"Low satisfaction">> ELSE <<>>)
    \o (IF c.supportTickets > 5 THEN <<"High support volume">> ELSE <<>>)
    \o (IF c.features.daysSinceLastLogin > 14 THEN <<"Inactive user">> ELSE <<>>)

\* routes: const factors = []; ... push
factors(c) ==
    (IF c.features.daysSinceLastLogin > 14 THEN <<"Inactive user">> ELSE <<>>)
    \o (IF c.supportTickets > 5 THEN <<"High support volume">> ELSE <<>>)
    \o (IF c.features.supportSatisfaction < 6 THEN <<"Low satisfaction">> ELSE <<>>)
    \o (IF c.loginFrequency < 5 THEN <<"Low engagement">> ELSE <<>>)


\* --------------------------------------------------- Customer.js: schema
DefaultFeatures ==
    [daysSinceLastLogin |-> 0, productUsage |-> 0, supportSatisfaction |-> 5]

\* the schema defaults; the two required numbers have none
SchemaDefaults ==
    [subscriptionValue |-> 0,
     supportTickets    |-> 0,
     loginFrequency    |-> 0,
     contractLength    |-> 0,
     churnRisk         |-> 0,
     status            |-> "active",
     features          |-> DefaultFeatures,
     predictions       |-> <<>>]

RequiredPaths == {"subscriptionValue", "contractLength"}

StatusEnum    == {"active", "churned", "at_risk"}
RiskLevelEnum == {"low", "medium", "high"}

\* name, email and company are strings, kept as sequences of characters.
\* A body without them stands for a request whose name, email and company
\* are given and differ from those of every other customer.
IdentityPaths == {"name", "email", "company"}

LowerOf(ch) ==
    CASE ch = "A" -> "a"
      [] ch = "B" -> "b"
      [] OTHER    -> ch

\* an email stored as it was sent
toLowerCaseKept(str) == str

\* lowercase: true
toLowerCase(str) == [i \in 1..Len(str) |-> LowerOf(str[i])]

\* trim: true
RECURSIVE trim(_)
trim(str) ==
    IF str = <<>> THEN str
    ELSE IF Head(str) = " " THEN trim(Tail(str))
    ELSE IF str[Len(str)] = " " THEN trim(SubSeq(str, 1, Len(str) - 1))
    ELSE str

\* the validator of one path, applied to the value v
ValidPath(f, v) ==
    CASE f = "subscriptionValue" -> v >= 0
      [] f = "supportTickets"    -> v >= 0
      [] f = "loginFrequency"    -> v >= 0
      [] f = "contractLength"    -> v >= 1
      [] f = "churnRisk"         -> v >= 0 /\ v <= Scale
      [] f = "status"            -> v \in StatusEnum
      [] f = "features"          -> v.supportSatisfaction >= 1
                                    /\ v.supportSatisfaction <= 10
      [] f = "predictions"       ->
            \A i \in 1..Len(v) :
                /\ v[i].churnProbability >= 0
                /\ v[i].churnProbability <= Scale
                /\ v[i].riskLevel \in RiskLevelEnum
      [] f \in IdentityPaths     -> trim(v) # <<>>

\* the setters of the identity paths of a body
CastIdentity(body) ==
    [f \in DOMAIN body |->
        IF f = "email" THEN toLowerCase(trim(body[f]))
        ELSE IF f \in IdentityPaths THEN trim(body[f])
        ELSE body[f]]

\* new Customer(body)
NewCustomer(body) ==
    LET cast == CastIdentity(body)
        doc  == Merge(SchemaDefaults, cast)
    IN  [f \in DOMAIN doc \cup (DOMAIN cast \cap IdentityPaths) |->
            IF f \in DOMAIN doc THEN doc[f] ELSE cast[f]]

\* document validation before save(): required paths and every validator
ValidNew(body) ==
    /\ RequiredPaths \subseteq DOMAIN body
    /\ \A f \in DOMAIN SchemaDefaults : ValidPath(f, NewCustomer(body)[f])
    /\ \A f \in DOMAIN body \cap IdentityPaths : ValidPath(f, body[f])

\* an update without runValidators
ValidUpdateOff(body) == TRUE

\* runValidators: true validates the paths of the update only
ValidUpdate(body) == \A f \in DOMAIN body : ValidPath(f, body[f])

\* customerSchema.pre('save') for a new document
PreSaveNew(doc) ==
    LET risk == calculateChurnRisk(doc)
    IN  [doc EXCEPT !.churnRisk = risk, !.status = determineStatus(risk)]

\* ------------------------------------------------------- request bodies
\* POST / bodies: three valid ones (scores 0.25, 0.62 and 1.0; the second
\* one also carries a churnRisk and a status) and two that violate the schema
BodyActive ==
    [subscriptionValue |-> 10000, contractLength |-> 36, loginFrequency |-> 30,
     features |-> [daysSinceLastLogin |-> -30, productUsage |-> 100,
                   supportSatisfaction |-> 10]]

BodyAtRisk ==
    [subscriptionValue |-> 10000, contractLength |-> 36, loginFrequency |-> 30,
     supportTickets |-> 6, churnRisk |-> Scale \div 10, status |-> "active",
     features |-> [daysSinceLastLogin |-> 0, productUsage |-> 100,
                   supportSatisfaction |-> 10]]

BodyChurned ==
    [subscriptionValue |-> 0, contractLength |-> 1, supportTickets |-> 10,
     features |-> [daysSinceLastLogin |-> 30, productUsage |-> 0,
                   supportSatisfaction |-> 1]]

\* two bodies whose scores are exactly the cutoffs 0.3 and 0.7
BodyLowCut ==
    [subscriptionValue |-> 10000, contractLength |-> 36, loginFrequency |-> 30,
     features |-> [daysSinceLastLogin |-> -24, productUsage |-> 100,
                   supportSatisfaction |-> 10]]

BodyHighCut ==
    [subscriptionValue |-> 10000, contractLength |-> 36, loginFrequency |-> 30,
     supportTickets |-> 10,
     features |-> [daysSinceLastLogin |-> 0, productUsage |-> 100,
                   supportSatisfaction |-> 10]]

\* bodies with an email: the same letter in both cases and with a blank,
\* another letter, and the email the first sample is seeded with
Emails == {<<"a">>, <<"A">>, <<"a", " ">>, <<"B">>, <<"b", ".", "0">>}

EmailBodies ==
    { [name |-> <<"n">>, email |-> e, company |-> <<"c">>,
       subscriptionValue |-> 100, contractLength |-> 12] : e \in Emails }

EmailUpdates == { [email |-> e] : e \in Emails }

BodyNegativeValue == [subscriptionValue |-> -1, contractLength |-> 12]

BodyNoContract == [subscriptionValue |-> 100]

CreateBodies ==
    {BodyActive, BodyAtRisk, BodyChurned, BodyNegativeValue, BodyNoContract}

\* bodies with one value out of its range each, for POST / and for PUT /:id
OutOfRange ==
    { [subscriptionValue |-> -1],
      [contractLength |-> 0],
      [supportTickets |-> -1],
      [loginFrequency |-> -1],
      [features |-> [daysSinceLastLogin |-> 0, productUsage |-> 0,
                     supportSatisfaction |-> 0]],
      [features |-> [daysSinceLastLogin |-> 0, productUsage |-> 0,
                     supportSatisfaction |-> 11]] }

\* a valid body with the fields of `wrong` put in their place
With(valid, wrong) ==
    [f \in DOMAIN valid \cup DOMAIN wrong |->
        IF f \in DOMAIN wrong THEN wrong[f] ELSE valid[f]]

InvalidCreateBodies ==
    { With(BodyAtRisk, wrong) : wrong \in OutOfRange }
    \cup { [contractLength |-> 12], [subscriptionValue |-> 100] }

\* PUT /:id bodies: a commercial attribute, the status, the history, and one
\* that violates the schema
UpdateBodies ==
    { [supportTickets |-> 10],
      [status |-> "active"],
      [predictions |-> <<>>],
      [contractLength |-> 0] }

\* generateSampleCustomers: one sample within the generated ranges; its
\* score is 0.698 and predict finds the factor 'Low satisfaction' for it
Sample ==
    [subscriptionValue |-> 500, contractLength |-> 35, loginFrequency |-> 25,
     supportTickets |-> 0,
     features |-> [daysSinceLastLogin |-> 0, productUsage |-> 99,
                   supportSatisfaction |-> 5]]

SampleCustomers == {Sample}

\* the same sample with an email; the generator builds the email of the
\* i-th sample from a name, the index i and a company, all in lower case
SampleWithEmail ==
    [subscriptionValue |-> 500, contractLength |-> 35, loginFrequency |-> 25,
     supportTickets |-> 0, name |-> <<"n">>, email |-> <<"b", ".">>,
     company |-> <<"c">>,
     features |-> [daysSinceLastLogin |-> 0, productUsage |-> 99,
                   supportSatisfaction |-> 5]]

Digits == <<"0", "1", "2", "3", "4", "5", "6", "7", "8", "9">>

\* the i-th generated sample
SampleAt(sample, i) ==
    IF "email" \in DOMAIN sample
    THEN [sample EXCEPT !.email = @ \o <<Digits[(i % 10) + 1]>>]
    ELSE sample

\* ------------------------------------------------------------ the store
Lookup(id) == IF id \in DOMAIN store THEN store[id] ELSE Absent

Present == {id \in DOMAIN store : store[id] # Absent}

NoDocs == [i \in {} |-> 0]

\* a handler that is not running
Idle == [op |-> "none", pc |-> "done", id |-> 0, docs |-> NoDocs,
         ops |-> NoDocs, code |-> 0, count |-> 0]

Free(p) == reqs[p].pc = "done"

\* res.status(code).json(...): count is processedCustomers of the bulk
\* response
Send(op, id, code, count) ==
    resp' = [code |-> code, count |-> count]

\* the handler responds and ends
Respond(p, op, id, code, count) ==
    /\ Send(op, id, code, count)
    /\ reqs' = [reqs EXCEPT ![p] = Idle]

NoResponse == [code |-> 0, count |-> 0]

\* ---------------------------------------------- save() of a loaded doc
\* the handler without its line customer.status = customer.determineStatus()
DeltaNoStatus(customer, churnProbability, prediction) ==
    [modRisk   |-> churnProbability # customer.churnRisk,
     churnRisk |-> churnProbability,
     modStatus |-> FALSE,
     status    |-> customer.status,
     push      |-> prediction]

\* What the handler changed on its loaded document: the $set of the paths
\* whose value changed and the $push of the new prediction.
Delta(customer, churnProbability, prediction) ==
    LET status == determineStatus(churnProbability)
    IN  [modRisk   |-> churnProbability # customer.churnRisk,
         churnRisk |-> churnProbability,
         modStatus |-> status # customer.status,
         status    |-> status,
         push      |-> prediction]

\* a save() that sends nothing when no scalar path was modified
ApplyDeltaScalarsOnly(stored, d) ==
    [stored EXCEPT
        !.churnRisk   = IF d.modRisk THEN d.churnRisk ELSE @,
        !.status      = IF d.modStatus THEN d.status ELSE @,
        !.predictions = IF d.modRisk \/ d.modStatus THEN Append(@, d.push) ELSE @]

\* the updateOne that save() sends, applied to the stored document
ApplyDelta(stored, d) ==
    [stored EXCEPT
        !.churnRisk   = IF d.modRisk THEN d.churnRisk ELSE @,
        !.status      = IF d.modStatus THEN d.status ELSE @,
        !.predictions = Append(@, d.push)]

\* the unique index on email: another stored customer has the email that
\* doc is about to be stored with (error code 11000)
DuplicateKey(doc, self) ==
    /\ "email" \in DOMAIN doc
    /\ \E i \in Present \ {self} :
            "email" \in DOMAIN store[i] /\ store[i].email = doc.email

\* ------------------------------------------------------- GET /
\* { $regex: search, $options: 'i' }: the text occurs in the string, in
\* any letter case
RegexI(str, search) ==
    \E k \in 0..(Len(str) - Len(search)) :
        \A j \in 1..Len(search) : LowerOf(str[k + j]) = LowerOf(search[j])

\* the query built from req.query; "" and <<>> stand for a parameter that
\* was not sent
Matching(q) ==
    { i \in Present :
        /\ q.status # "" => store[i].status = q.status
        /\ q.search # <<>> =>
                \E f \in IdentityPaths \cap DOMAIN store[i] :
                    RegexI(store[i][f], q.search) }

\* sort[sortBy] = sortOrder === 'desc' ? -1 : 1
InOrder(q, a, b) ==
    IF q.sortOrder = "desc"
    THEN store[a][q.sortBy] >= store[b][q.sortBy]
    ELSE store[a][q.sortBy] <= store[b][q.sortBy]

Arrangements(ids) ==
    { s \in [1..Cardinality(ids) -> ids] :
        \A a, b \in 1..Cardinality(ids) : a # b => s[a] # s[b] }

\* find(query).sort(sort): the sort has one key and no tie-breaker, so
\* documents with equal keys come in whatever order the query execution
\* produces
Sort(q) ==
    { s \in Arrangements(Matching(q)) :
        \A a, b \in 1..Len(s) : a < b => InOrder(q, s[a], s[b]) }

\* .limit(limit).skip((page - 1) * limit)
Page(sorted, q) ==
    LET skip == (q.page - 1) * q.limit
    IN  SubSeq(sorted, skip + 1, Min(Len(sorted), skip + q.limit))

\* Math.ceil(total / limit)
Ceil(total, limit) == (total + limit - 1) \div limit

\* the query without its page
QueryOf(q) == [q EXCEPT !.page = 0]

\* await Customer.find(query).sort(sort).limit(...).skip(...)
ListFind(p, q) ==
    /\ Free(p)
    /\ \E sorted \in Sort(q) :
        reqs' = [reqs EXCEPT ![p] =
            [op |-> "list", pc |-> "counting", id |-> 0, docs |-> NoDocs,
             ops |-> NoDocs, code |-> 0, count |-> 0,
             acc |-> [query |-> q, customers |-> Page(sorted, q)]]]
    /\ UNCHANGED <<store, nextId, seeded, now, resp, writes, scoreIn, scoreOut, listed>>

\* await Customer.countDocuments(query), then res.json
ListCount(p) ==
    /\ reqs[p].op = "list" /\ reqs[p].pc = "counting"
    /\ LET q         == reqs[p].acc.query
           customers == reqs[p].acc.customers
           total     == Cardinality(Matching(q))
           ids       == {customers[n] : n \in 1..Len(customers)}
       IN  /\ resp' = [code |-> 200, count |-> 0, customers |-> customers,
                       pagination |-> [page |-> q.page, limit |-> q.limit,
                                       total |-> total,
                                       pages |-> Ceil(total, q.limit)]]
           /\ listed' =
                IF listed.store = store /\ listed.query = QueryOf(q)
                THEN [listed EXCEPT !.pages = @ \cup {q.page}, !.ids = @ \cup ids]
                ELSE [store |-> store, query |-> QueryOf(q),
                      pages |-> {q.page}, ids |-> ids]
    /\ reqs' = [reqs EXCEPT ![p] = Idle]
    /\ UNCHANGED <<store, nextId, seeded, now, writes, scoreIn, scoreOut>>

\* ------------------------------------------------------- GET /:id
GetCustomer(p, id) ==
    /\ Free(p)
    /\ Respond(p, "get", id,
               IF id = MalformedId THEN 500
               ELSE IF Lookup(id) = Absent THEN 404 ELSE 200, 0)
    /\ UNCHANGED <<store, nextId, seeded, now, writes, scoreIn, scoreOut, listed>>

\* ------------------------------------------------------- POST /
CreateCustomer(p, body) ==
    /\ Free(p)
    /\ nextId \in DOMAIN store
    /\ IF ValidNew(body) /\ ~DuplicateKey(NewCustomer(body), nextId)
       THEN /\ store' = [store EXCEPT ![nextId] = PreSaveNew(NewCustomer(body))]
            /\ nextId' = nextId + 1
            /\ Respond(p, "create", nextId, 201, 0)
       ELSE /\ Respond(p, "create", 0, 400, 0)
            /\ UNCHANGED <<store, nextId>>
    /\ UNCHANGED <<seeded, now, writes, scoreIn, scoreOut, listed>>

\* ------------------------------------------------------- PUT /:id
UpdateCustomer(p, id, body) ==
    /\ Free(p)
    /\ IF id = MalformedId \/ ~ValidUpdate(body)
       THEN Respond(p, "update", id, 400, 0) /\ UNCHANGED store
       ELSE IF Lookup(id) = Absent
       THEN Respond(p, "update", id, 404, 0) /\ UNCHANGED store
       ELSE IF DuplicateKey(Merge(store[id], CastIdentity(body)), id)
       THEN Respond(p, "update", id, 400, 0) /\ UNCHANGED store
       ELSE /\ store' = [store EXCEPT ![id] = Merge(@, CastIdentity(body))]
            /\ Respond(p, "update", id, 200, 0)
    /\ UNCHANGED <<nextId, seeded, now, writes, scoreIn, scoreOut, listed>>

\* ------------------------------------------------------- DELETE /:id
DeleteCustomer(p, id) ==
    /\ Free(p)
    /\ IF id = MalformedId
       THEN Respond(p, "delete", id, 500, 0) /\ UNCHANGED store
       ELSE IF Lookup(id) = Absent
       THEN Respond(p, "delete", id, 404, 0) /\ UNCHANGED store
       ELSE /\ store' = [store EXCEPT ![id] = Absent]
            /\ Respond(p, "delete", id, 200, 0)
    /\ UNCHANGED <<nextId, seeded, now, writes, scoreIn, scoreOut, listed>>

\* ------------------------------------------------------- POST /:id/predict
\* await Customer.findById(req.params.id)
PredictFind(p, id) ==
    /\ Free(p)
    /\ Lookup(id) # Absent => writes[id] < MaxHist
    /\ IF id = MalformedId
       THEN Respond(p, "predict", id, 500, 0)
       ELSE IF Lookup(id) = Absent
       THEN Respond(p, "predict", id, 404, 0)
       ELSE /\ reqs' = [reqs EXCEPT ![p] =
                    [op |-> "predict", pc |-> "loaded", id |-> id,
                     docs |-> [i \in {id} |-> store[id]], ops |-> NoDocs,
                     code |-> 0, count |-> 0]]
            /\ UNCHANGED resp
    /\ UNCHANGED <<store, nextId, seeded, now, writes, scoreIn, scoreOut, listed>>

\* the synchronous part up to the call of customer.save()
PredictCompute(p) ==
    /\ reqs[p].op = "predict" /\ reqs[p].pc = "loaded"
    /\ LET id               == reqs[p].id
           customer         == reqs[p].docs[id]
           churnProbability == calculateChurnRisk(customer)
           prediction       == [date             |-> now,
                                churnProbability |-> churnProbability,
                                riskLevel        |-> riskLevel(churnProbability),
                                factors          |-> factors(customer),
                                modelVersion     |-> "1.0"]
       IN  reqs' = [reqs EXCEPT ![p].pc = "saving",
                                ![p].docs = NoDocs,
                                ![p].ops = [i \in {id} |->
                                    Delta(customer, churnProbability, prediction)]]
    /\ UNCHANGED <<store, nextId, seeded, now, resp, writes, scoreIn, scoreOut, listed>>

\* a save() with an optimistic-concurrency check: it is rejected when the
\* stored risk is no longer the one the handler loaded
PredictSaveVersioned(p) ==
    /\ reqs[p].op = "predict" /\ reqs[p].pc = "saving"
    /\ LET id == reqs[p].id
           d  == reqs[p].ops[id]
       IN  IF store[id] = Absent
              \/ (d.modRisk /\ store[id].churnRisk = d.churnRisk)
           THEN Respond(p, "predict", id, 500, 0) /\ UNCHANGED <<store, writes>>
           ELSE /\ store' = [store EXCEPT ![id] = ApplyDelta(@, d)]
                /\ writes' = [writes EXCEPT ![id] = @ + 1]
                /\ Respond(p, "predict", id, 200, 0)
    /\ UNCHANGED <<nextId, seeded, now, scoreIn, scoreOut, listed>>

\* await customer.save(), then res.json; a vanished document rejects
PredictSave(p) ==
    /\ reqs[p].op = "predict" /\ reqs[p].pc = "saving"
    /\ LET id == reqs[p].id
       IN  IF store[id] = Absent
           THEN Respond(p, "predict", id, 500, 0) /\ UNCHANGED <<store, writes>>
           ELSE /\ store' = [store EXCEPT ![id] = ApplyDelta(@, reqs[p].ops[id])]
                /\ writes' = [writes EXCEPT ![id] = @ + 1]
                /\ Respond(p, "predict", id, 200, 0)
    /\ UNCHANGED <<nextId, seeded, now, scoreIn, scoreOut, listed>>

\* ------------------------------------------------------- POST /predict/bulk
\* a find() without the status filter
BulkSelectAll == Present

\* a find() that selects by the status the stored fields would score now
BulkSelectRescored ==
    {id \in Present : determineStatus(calculateChurnRisk(store[id])) # "churned"}

\* Customer.find({ status: { $ne: 'churned' } })
BulkSelect == {id \in Present : store[id].status # "churned"}

BulkFind(p) ==
    /\ Free(p)
    /\ \A id \in BulkSelect : writes[id] < MaxHist
    /\ reqs' = [reqs EXCEPT ![p] =
            [op |-> "bulk", pc |-> "loaded", id |-> 0,
             docs |-> [i \in BulkSelect |-> store[i]], ops |-> NoDocs,
             code |-> 0, count |-> Cardinality(BulkSelect)]]
    /\ UNCHANGED <<store, nextId, seeded, now, resp, writes, scoreIn, scoreOut, listed>>

\* customers.map(...): every callback runs up to its customer.save()
BulkCompute(p) ==
    /\ reqs[p].op = "bulk" /\ reqs[p].pc = "loaded"
    /\ LET customers == reqs[p].docs
           BulkDelta(customer) ==
               LET churnProbability == calculateChurnRisk(customer)
               IN  Delta(customer, churnProbability,
                         [date             |-> now,
                          churnProbability |-> churnProbability,
                          riskLevel        |-> riskLevel(churnProbability),
                          factors          |-> <<>>,
                          modelVersion     |-> "1.0"])
       IN  IF DOMAIN customers = {}
           THEN Respond(p, "bulk", 0, 200, 0)
           ELSE /\ reqs' = [reqs EXCEPT
                        ![p].pc = "saving",
                        ![p].ops = [i \in DOMAIN customers |->
                                        BulkDelta(customers[i])]]
                /\ UNCHANGED resp
    /\ UNCHANGED <<store, nextId, seeded, now, writes, scoreIn, scoreOut, listed>>

\* a batch that stops writing once one of its saves was rejected
BulkSaveAbort(p, id) ==
    /\ reqs[p].op = "bulk" /\ reqs[p].pc = "saving"
    /\ id \in DOMAIN reqs[p].ops
    /\ LET ok   == store[id] # Absent
           rest == [i \in DOMAIN reqs[p].ops \ {id} |-> reqs[p].ops[i]]
           sent == reqs[p].code = 500
       IN  /\ IF ok /\ ~sent
              THEN /\ store' = [store EXCEPT ![id] = ApplyDelta(@, reqs[p].ops[id])]
                   /\ writes' = [writes EXCEPT ![id] = @ + 1]
              ELSE UNCHANGED <<store, writes>>
           /\ IF ~ok /\ ~sent
              THEN Send("bulk", 0, 500, 0)
              ELSE IF DOMAIN rest = {} /\ ~sent
              THEN Send("bulk", 0, 200, reqs[p].count)
              ELSE UNCHANGED resp
           /\ IF DOMAIN rest = {}
              THEN reqs' = [reqs EXCEPT ![p] = Idle]
              ELSE reqs' = [reqs EXCEPT ![p].ops = rest,
                                        ![p].code = IF sent \/ ~ok THEN 500 ELSE 0]
    /\ UNCHANGED <<nextId, seeded, now, scoreIn, scoreOut, listed>>

\* a batch that swallows the rejection of a save and reports its count
BulkSaveSilent(p, id) ==
    /\ reqs[p].op = "bulk" /\ reqs[p].pc = "saving"
    /\ id \in DOMAIN reqs[p].ops
    /\ LET ok   == store[id] # Absent
           rest == [i \in DOMAIN reqs[p].ops \ {id} |-> reqs[p].ops[i]]
       IN  /\ IF ok
              THEN /\ store' = [store EXCEPT ![id] = ApplyDelta(@, reqs[p].ops[id])]
                   /\ writes' = [writes EXCEPT ![id] = @ + 1]
              ELSE UNCHANGED <<store, writes>>
           /\ IF DOMAIN rest = {}
              THEN /\ Send("bulk", 0, 200, reqs[p].count)
                   /\ reqs' = [reqs EXCEPT ![p] = Idle]
              ELSE /\ UNCHANGED resp
                   /\ reqs' = [reqs EXCEPT ![p].ops = rest]
    /\ UNCHANGED <<nextId, seeded, now, scoreIn, scoreOut, listed>>

\* one of the pending save() calls reaches the store.  Promise.all rejects
\* on the first rejection (the 500 is sent then) and resolves after the
\* last fulfilment; the other saves are not cancelled.
BulkSave(p, id) ==
    /\ reqs[p].op = "bulk" /\ reqs[p].pc = "saving"
    /\ id \in DOMAIN reqs[p].ops
    /\ LET ok   == store[id] # Absent
           rest == [i \in DOMAIN reqs[p].ops \ {id} |-> reqs[p].ops[i]]
           sent == reqs[p].code = 500
       IN  /\ IF ok
              THEN /\ store' = [store EXCEPT ![id] = ApplyDelta(@, reqs[p].ops[id])]
                   /\ writes' = [writes EXCEPT ![id] = @ + 1]
              ELSE UNCHANGED <<store, writes>>
           /\ IF ~ok /\ ~sent
              THEN Send("bulk", 0, 500, 0)
              ELSE IF DOMAIN rest = {} /\ ~sent
              THEN Send("bulk", 0, 200, reqs[p].count)
              ELSE UNCHANGED resp
           /\ IF DOMAIN rest = {}
              THEN reqs' = [reqs EXCEPT ![p] = Idle]
              ELSE reqs' = [reqs EXCEPT ![p].ops = rest,
                                        ![p].code = IF sent \/ ~ok THEN 500 ELSE 0]
    /\ UNCHANGED <<nextId, seeded, now, scoreIn, scoreOut, listed>>

\* ------------------------------------------------------- GET /analytics/summary
\* an $avg as the exact fraction num / den; 0 / 1 for the `|| 0` of an
\* empty result
NoAverage == [num |-> 0, den |-> 1]

RECURSIVE SumOf(_, _)
SumOf(ids, field) ==
    IF ids = {} THEN 0
    ELSE LET i == CHOOSE x \in ids : TRUE
         IN  store[i][field] + SumOf(ids \ {i}, field)

Avg(ids, field) == [num |-> SumOf(ids, field), den |-> Cardinality(ids)]

\* a count that ignores its filter
countDocumentsUnfiltered(status) == Cardinality(Present)

\* Customer.countDocuments({ status })
countDocuments(status) == Cardinality({i \in Present : store[i].status = status})

\* the rate as a fraction of 1 instead of a percentage
toFixed2Fraction(num, den) == (2 * num * 100 + den) \div (2 * den)

\* (x * 100).toFixed(2) for x = num / den, in hundredths of a percent; the
\* code yields the digits as a string
toFixed2(num, den) == (2 * num * 10000 + den) \div (2 * den)

\* $group with _id: null; no group at all for an empty collection
Averages ==
    IF Present = {}
    THEN [avgRisk |-> NoAverage, avgSubscriptionValue |-> NoAverage,
          avgSupportTickets |-> NoAverage]
    ELSE [avgRisk              |-> Avg(Present, "churnRisk"),
          avgSubscriptionValue |-> Avg(Present, "subscriptionValue"),
          avgSupportTickets    |-> Avg(Present, "supportTickets")]

\* $bucket without its default: a score of no range is left out
BucketOfNoDefault(churnRisk) ==
    IF churnRisk >= 0 /\ churnRisk < LowCut THEN "0"
    ELSE IF churnRisk >= LowCut /\ churnRisk < HighCut THEN "0.3"
    ELSE IF churnRisk >= HighCut /\ churnRisk < Scale THEN "0.7"
    ELSE "none"

\* $bucket, boundaries [0, 0.3, 0.7, 1.0]: a bucket holds its lower boundary
\* and not its upper one, and is named after the lower one; default 'other'
BucketOf(churnRisk) ==
    IF churnRisk >= 0 /\ churnRisk < LowCut THEN "0"
    ELSE IF churnRisk >= LowCut /\ churnRisk < HighCut THEN "0.3"
    ELSE IF churnRisk >= HighCut /\ churnRisk < Scale THEN "0.7"
    ELSE "other"

BucketIds == {"0", "0.3", "0.7", "other"}

\* the buckets that received a customer, each with its count and customers
riskDistribution ==
    LET In(b) == {i \in Present : BucketOf(store[i].churnRisk) = b}
    IN  [b \in {x \in BucketIds : In(x) # {}} |->
            [count |-> Cardinality(In(b)), customers |-> In(b)]]

TrendLimit == 12

\* $sort: { '_id.year': 1, '_id.month': 1 }
Before(a, b) == a.year < b.year \/ (a.year = b.year /\ a.month < b.month)

RECURSIVE SortGroups(_)
SortGroups(keys) ==
    IF keys = {} THEN <<>>
    ELSE LET first == CHOOSE k \in keys : \A o \in keys \ {k} : Before(k, o)
         IN  <<first>> \o SortGroups(keys \ {first})

\* the trend cut from the other end: the latest months are kept
monthlyTrendsLatest ==
    LET Created(k) == {i \in Present : store[i].createdAt = k}
        Group(k)   == [id |-> k, newCustomers |-> Cardinality(Created(k)),
                       avgChurnRisk |-> Avg(Created(k), "churnRisk")]
        sorted     == SortGroups({store[i].createdAt : i \in Present})
        from       == Max(1, Len(sorted) - TrendLimit + 1)
    IN  [n \in 1..Min(Len(sorted), TrendLimit) |-> Group(sorted[from + n - 1])]

\* $group by year and month of createdAt, $sort, $limit: 12
monthlyTrends ==
    LET Created(k) == {i \in Present : store[i].createdAt = k}
        Group(k)   == [id |-> k, newCustomers |-> Cardinality(Created(k)),
                       avgChurnRisk |-> Avg(Created(k), "churnRisk")]
        sorted     == SortGroups({store[i].createdAt : i \in Present})
    IN  [n \in 1..Min(Len(sorted), TrendLimit) |-> Group(sorted[n])]

\* what the handler has read so far
NoAnalytics ==
    [totalCustomers |-> 0, activeCustomers |-> 0, atRiskCustomers |-> 0,
     churnedCustomers |-> 0,
     avgChurnRisk |-> [avgRisk |-> NoAverage, avgSubscriptionValue |-> NoAverage,
                       avgSupportTickets |-> NoAverage],
     riskDistribution |-> <<>>]

Reading(p, pc) == reqs[p].op = "analytics" /\ reqs[p].pc = pc

\* the handler has read one more value and awaits the next query
Proceed(p, pc, acc) ==
    /\ reqs' = [reqs EXCEPT ![p] =
            [op |-> "analytics", pc |-> pc, id |-> 0, docs |-> NoDocs,
             ops |-> NoDocs, code |-> 0, count |-> 0, acc |-> acc]]
    /\ UNCHANGED <<store, nextId, seeded, now, resp, writes, scoreIn, scoreOut, listed>>

AnalyticsTotal(p) ==
    /\ Free(p)
    /\ Proceed(p, "active",
            [NoAnalytics EXCEPT !.totalCustomers = Cardinality(Present)])

AnalyticsActive(p) ==
    /\ Reading(p, "active")
    /\ Proceed(p, "at_risk",
            [reqs[p].acc EXCEPT !.activeCustomers = countDocuments("active")])

AnalyticsAtRisk(p) ==
    /\ Reading(p, "at_risk")
    /\ Proceed(p, "churned",
            [reqs[p].acc EXCEPT !.atRiskCustomers = countDocuments("at_risk")])

AnalyticsChurned(p) ==
    /\ Reading(p, "churned")
    /\ Proceed(p, "averages",
            [reqs[p].acc EXCEPT !.churnedCustomers = countDocuments("churned")])

AnalyticsAverages(p) ==
    /\ Reading(p, "averages")
    /\ Proceed(p, "buckets", [reqs[p].acc EXCEPT !.avgChurnRisk = Averages])

AnalyticsBuckets(p) ==
    /\ Reading(p, "buckets")
    /\ Proceed(p, "trends", [reqs[p].acc EXCEPT !.riskDistribution = riskDistribution])

\* the last query, then res.json({ summary, riskDistribution, monthlyTrends })
AnalyticsTrends(p) ==
    /\ Reading(p, "trends")
    /\ LET acc == reqs[p].acc
       IN  resp' =
            [code |-> 200, count |-> 0,
             summary |->
                [totalCustomers       |-> acc.totalCustomers,
                 activeCustomers      |-> acc.activeCustomers,
                 atRiskCustomers      |-> acc.atRiskCustomers,
                 churnedCustomers     |-> acc.churnedCustomers,
                 churnRate            |->
                    IF acc.totalCustomers > 0
                    THEN toFixed2(acc.churnedCustomers, acc.totalCustomers)
                    ELSE 0,
                 avgChurnRisk         |-> acc.avgChurnRisk.avgRisk,
                 avgSubscriptionValue |-> acc.avgChurnRisk.avgSubscriptionValue,
                 avgSupportTickets    |-> acc.avgChurnRisk.avgSupportTickets],
             riskDistribution |-> acc.riskDistribution,
             monthlyTrends    |-> monthlyTrends]
    /\ reqs' = [reqs EXCEPT ![p] = Idle]
    /\ UNCHANGED <<store, nextId, seeded, now, writes, scoreIn, scoreOut, listed>>

\* ------------------------------------------------------- server.js
\* Customer.insertMany validates and applies the defaults but runs no save
\* middleware; SeedCount stands for the 100 generated samples
SeedCount == 1

seedDatabase(sample) ==
    /\ ~seeded
    /\ seeded' = TRUE
    /\ IF Present = {} /\ nextId + SeedCount - 1 \in DOMAIN store
       THEN /\ store' = [i \in DOMAIN store |->
                    IF i >= nextId /\ i < nextId + SeedCount
                    THEN NewCustomer(SampleAt(sample, i - nextId))
                    ELSE store[i]]
            /\ nextId' = nextId + SeedCount
       ELSE UNCHANGED <<store, nextId>>
    /\ UNCHANGED <<now, reqs, resp, writes, scoreIn, scoreOut, listed>>

\* the wall clock advances
Tick ==
    /\ now < MaxClock
    /\ now' = now + 1
    /\ UNCHANGED <<store, nextId, seeded, reqs, resp, writes, scoreIn, scoreOut, listed>>

\* ------------------------------------------------------- specification
NoScore == [none |-> TRUE]

\* no page of any query has been returned
NoPages == [store |-> <<>>, query |-> <<>>, pages |-> {}, ids |-> {}]

Init ==
    /\ store = [i \in Ids |-> Absent]
    /\ nextId = 1
    /\ seeded = FALSE
    /\ now = 0
    /\ reqs = [p \in Procs |-> Idle]
    /\ resp = NoResponse
    /\ writes = [i \in Ids |-> 0]
    /\ scoreIn = NoScore
    /\ scoreOut = NoScore
    /\ listed = NoPages

RequestIds == DOMAIN store \cup {MalformedId}

\* Spec: the requests arrive one after the other, each handler runs to its
\* response before the next one starts.  The serial specifications read the
\* clock at one instant; it advances in RaceSpec, where handlers overlap and
\* the order of the timestamps is at stake.
Serial == \A q \in Procs : Free(q)

Next ==
    \/ \E id \in RequestIds : Serial /\ GetCustomer(1, id)
    \/ \E body \in CreateBodies : Serial /\ CreateCustomer(1, body)
    \/ \E id \in RequestIds, body \in UpdateBodies :
            Serial /\ UpdateCustomer(1, id, body)
    \/ \E id \in RequestIds : Serial /\ DeleteCustomer(1, id)
    \/ \E id \in RequestIds : Serial /\ PredictFind(1, id)
    \/ PredictCompute(1)
    \/ PredictSave(1)
    \/ Serial /\ BulkFind(1)
    \/ BulkCompute(1)
    \/ \E id \in DOMAIN store : BulkSave(1, id)
    \/ \E sample \in SampleCustomers : seedDatabase(sample)

Spec == Init /\ [][Next]_vars


\* ------------------------------------------- ScoreSpec: the pure functions
\* Every combination of a few values per input, zero and very large ones
\* included; daysSinceLastLogin has no validator and may be negative.
GridDays         == {-100000, 0, 15, 100000}
GridTickets      == {0, 6, 100000}
GridLogins       == {0, 3, 100000}
GridContract     == {0, 12, 100000}
GridSatisfaction == {1, 5, 10}
GridValue        == {0, 500, 1000000}
GridUsage        == {0, 50, 100000}

GridCustomers ==
    { [subscriptionValue |-> v, supportTickets |-> t, loginFrequency |-> l,
       contractLength |-> c,
       features |-> [daysSinceLastLogin |-> d, productUsage |-> u,
                     supportSatisfaction |-> s]] :
        v \in GridValue, t \in GridTickets, l \in GridLogins, c \in GridContract,
        d \in GridDays, u \in GridUsage, s \in GridSatisfaction }

\* scores in [0,1]: every twentieth, and the two cutoffs with their neighbours
GridRisk ==
    { (k * Scale) \div 20 : k \in 0..20 }
    \cup { LowCut - 1, LowCut + 1, HighCut - 1, HighCut + 1 }

\* two inputs on which no signal and every signal contributes
ScenarioNeutral ==
    [subscriptionValue |-> 10000, supportTickets |-> 0, loginFrequency |-> 30,
     contractLength |-> 36,
     features |-> [daysSinceLastLogin |-> 0, productUsage |-> 100,
                   supportSatisfaction |-> 10]]

ScenarioWorst ==
    [subscriptionValue |-> 0, supportTickets |-> 10, loginFrequency |-> 0,
     contractLength |-> 0,
     features |-> [daysSinceLastLogin |-> 30, productUsage |-> 0,
                   supportSatisfaction |-> 1]]

\* an input on which every factor rule fires
ScenarioAllFactors ==
    [subscriptionValue |-> 500, supportTickets |-> 6, loginFrequency |-> 3,
     contractLength |-> 12,
     features |-> [daysSinceLastLogin |-> 20, productUsage |-> 50,
                   supportSatisfaction |-> 5]]

ScoreInputs ==
    { [kind |-> "score", customer |-> c, churnRisk |-> 0] :
            c \in GridCustomers
                  \cup {ScenarioNeutral, ScenarioWorst, ScenarioAllFactors} }
    \cup { [kind |-> "classify", customer |-> SchemaDefaults, churnRisk |-> r] :
            r \in GridRisk }

ScoreInit ==
    /\ store = [i \in Ids |-> Absent]
    /\ nextId = 1
    /\ seeded = FALSE
    /\ now = 0
    /\ reqs = [p \in Procs |-> Idle]
    /\ resp = NoResponse
    /\ writes = [i \in Ids |-> 0]
    /\ scoreIn \in ScoreInputs
    /\ scoreOut = NoScore
    /\ listed = NoPages

\* customer.calculateChurnRisk() on the input, then determineStatus() on
\* it, and the level and the factors of the predict route
ScoreStep ==
    /\ scoreIn.kind = "score" /\ scoreOut = NoScore
    /\ LET risk == calculateChurnRisk(scoreIn.customer)
       IN  scoreOut' = [risk |-> risk, status |-> determineStatus(risk),
                        riskLevel |-> riskLevel(risk),
                        factors |-> factors(scoreIn.customer)]
    /\ UNCHANGED <<store, nextId, seeded, now, reqs, resp, writes, scoreIn, listed>>

\* customer.determineStatus() on a document whose churnRisk is the input
ClassifyStep ==
    /\ scoreIn.kind = "classify" /\ scoreOut = NoScore
    /\ scoreOut' = [risk |-> scoreIn.churnRisk,
                    status |-> determineStatus(scoreIn.churnRisk),
                    riskLevel |-> riskLevel(scoreIn.churnRisk)]
    /\ UNCHANGED <<store, nextId, seeded, now, reqs, resp, writes, scoreIn, listed>>

\* the input customer is created, then scored again by predict and by bulk
ScoreNext ==
    \/ ScoreStep
    \/ ClassifyStep
    \/ scoreIn.kind = "score" /\ nextId = 1 /\ Serial
            /\ CreateCustomer(1, scoreIn.customer)
    \/ \E id \in DOMAIN store : Serial /\ PredictFind(1, id)
    \/ PredictCompute(1)
    \/ PredictSave(1)
    \/ Serial /\ BulkFind(1)
    \/ BulkCompute(1)
    \/ \E id \in DOMAIN store : BulkSave(1, id)

ScoreSpec == ScoreInit /\ [][ScoreNext]_vars


\* ------------------------------------------- populated stores
\* A store of n customers that POST / and seedDatabase can produce: the
\* first one was created churned, the second one was seeded (risk 0 and
\* status active, the schema defaults), the others were created at risk.
Population(n) ==
    [i \in 1..n |->
        IF i = 1 THEN PreSaveNew(NewCustomer(BodyChurned))
        ELSE IF i = 2 THEN NewCustomer(Sample)
        ELSE PreSaveNew(NewCustomer(BodyAtRisk))]

PopulatedInit(n) ==
    /\ store = Population(n)
    /\ nextId = n + 1
    /\ seeded = TRUE
    /\ now = 0
    /\ reqs = [p \in Procs |-> Idle]
    /\ resp = NoResponse
    /\ writes = [i \in 1..n |-> 0]
    /\ scoreIn = NoScore
    /\ scoreOut = NoScore
    /\ listed = NoPages

\* ------------------------------------------- BulkSpec: a population, serial
\* predict, bulk, update and delete requests, one after the other, on a
\* store of BulkPop customers
BulkInit == PopulatedInit(BulkPop)

BulkNext ==
    \/ \E id \in RequestIds : Serial /\ PredictFind(1, id)
    \/ PredictCompute(1)
    \/ PredictSave(1)
    \/ Serial /\ BulkFind(1)
    \/ BulkCompute(1)
    \/ \E id \in DOMAIN store : BulkSave(1, id)
    \/ \E id \in RequestIds : Serial /\ DeleteCustomer(1, id)
    \/ \E id \in RequestIds, body \in UpdateBodies :
            Serial /\ UpdateCustomer(1, id, body)

BulkSpec == BulkInit /\ [][BulkNext]_vars

\* ------------------------------------------- RaceSpec: overlapping handlers
\* up to MaxProcs handlers of predict, bulk and delete run interleaved at
\* their awaits on a store of RacePop customers
RaceInit == PopulatedInit(RacePop)

RaceNext ==
    \/ \E p \in Procs, id \in RequestIds : PredictFind(p, id)
    \/ \E p \in Procs : PredictCompute(p)
    \/ \E p \in Procs : PredictSave(p)
    \/ \E p \in Procs : BulkFind(p)
    \/ \E p \in Procs : BulkCompute(p)
    \/ \E p \in Procs, id \in DOMAIN store : BulkSave(p, id)
    \/ \E p \in Procs, id \in RequestIds : DeleteCustomer(p, id)
    \/ Tick

RaceSpec == RaceInit /\ [][RaceNext]_vars


\* ------------------------------------------- FailSpec: a failing batch
\* one handler runs bulk recomputations on a store of FailPop customers
\* while a second one deletes customers: the save() of a customer that was
\* deleted after the find() is rejected
FailInit == PopulatedInit(FailPop)

FailNext ==
    \/ BulkFind(1)
    \/ BulkCompute(1)
    \/ \E id \in DOMAIN store : BulkSave(1, id)
    \/ \E id \in DOMAIN store : DeleteCustomer(2, id)

FailSpec == FailInit /\ [][FailNext]_vars


\* ------------------------------------------- AnalyticsSpec: the summary
\* timestamps: true gives every document its createdAt; of a createdAt the
\* aggregation reads the year and the month
Stamp(doc, createdAt) ==
    [f \in DOMAIN doc \cup {"createdAt"} |->
        IF f = "createdAt" THEN createdAt ELSE doc[f]]

\* the k-th month from November 2025 on
MonthAt(k) ==
    LET t == 2025 * 12 + 10 + k
    IN  [year |-> t \div 12, month |-> (t % 12) + 1]

\* documents as POST / and seedDatabase store them: scores 1.0, 0 (seeded,
\* never scored), 0.62, 0.25, 0.3 and 0.7
Profiles ==
    << PreSaveNew(NewCustomer(BodyChurned)),
       NewCustomer(Sample),
       PreSaveNew(NewCustomer(BodyAtRisk)),
       PreSaveNew(NewCustomer(BodyActive)),
       PreSaveNew(NewCustomer(BodyLowCut)),
       PreSaveNew(NewCustomer(BodyHighCut)) >>

\* two stores of n customers: in the first every customer was created in a
\* month of its own, over more than a year and not in the order of the ids;
\* in the second the customers share three months
AnalyticsStores(n) ==
    { [i \in 1..n |-> Stamp(Profiles[((i - 1) % Len(Profiles)) + 1],
                            MonthAt((i * 5) % n))],
      [i \in 1..n |-> Stamp(Profiles[((i - 1) % Len(Profiles)) + 1],
                            MonthAt(i % 3))] }

AnalyticsInit ==
    /\ store \in AnalyticsStores(AnalyticsPop)
    /\ nextId = AnalyticsPop + 1
    /\ seeded = TRUE
    /\ now = 0
    /\ reqs = [p \in Procs |-> Idle]
    /\ resp = NoResponse
    /\ writes = [i \in 1..AnalyticsPop |-> 0]
    /\ scoreIn = NoScore
    /\ scoreOut = NoScore
    /\ listed = NoPages

\* summaries and deletions, one request after the other
AnalyticsNext ==
    \/ Serial /\ AnalyticsTotal(1)
    \/ AnalyticsActive(1)
    \/ AnalyticsAtRisk(1)
    \/ AnalyticsChurned(1)
    \/ AnalyticsAverages(1)
    \/ AnalyticsBuckets(1)
    \/ AnalyticsTrends(1)
    \/ \E id \in RequestIds : Serial /\ DeleteCustomer(1, id)

AnalyticsSpec == AnalyticsInit /\ [][AnalyticsNext]_vars


\* ------------------------------------------- EmailSpec: the unique email
\* create, update and delete requests that carry an email, and the seeding,
\* on a store that starts empty; any handler may take the next request
EmailNext ==
    \/ \E p \in Procs, body \in EmailBodies : CreateCustomer(p, body)
    \/ \E p \in Procs, id \in DOMAIN store, body \in EmailUpdates :
            UpdateCustomer(p, id, body)
    \/ \E p \in Procs, id \in DOMAIN store : DeleteCustomer(p, id)
    \/ seedDatabase(SampleWithEmail)

EmailSpec == Init /\ [][EmailNext]_vars


\* ------------------------------------------- ValidationSpec: the validators
\* create and update requests with valid and with invalid bodies, deletes
\* and the seeding, one request after the other, on a store that starts
\* empty
ValidationNext ==
    \/ \E body \in CreateBodies \cup InvalidCreateBodies :
            Serial /\ CreateCustomer(1, body)
    \/ \E id \in RequestIds, body \in UpdateBodies \cup OutOfRange :
            Serial /\ UpdateCustomer(1, id, body)
    \/ \E id \in RequestIds : Serial /\ DeleteCustomer(1, id)
    \/ \E sample \in SampleCustomers : seedDatabase(sample)

ValidationSpec == Init /\ [][ValidationNext]_vars


\* ------------------------------------------- ListSpec: the list route
\* a store of n customers with names, emails and companies: the odd ones
\* were seeded (risk 0, status active, the same subscription value), the
\* even ones were created at risk
ListPopulation(n) ==
    [i \in 1..n |->
        IF i % 2 = 1
        THEN NewCustomer(SampleAt(SampleWithEmail, i))
        ELSE PreSaveNew(NewCustomer(
                With(BodyAtRisk, [name |-> <<"A">>, email |-> <<"a", Digits[(i % 10) + 1]>>,
                                  company |-> <<"c">>])))]

\* req.query: the defaults (risk descending) and other choices; pages 1..3
\* of 1 or 2 customers
ListQueries ==
    { [status |-> st, search |-> se, sortBy |-> by, sortOrder |-> ord,
       page |-> pg, limit |-> lim] :
        st \in {"", "active"}, se \in {<<>>, <<"a">>},
        by \in {"churnRisk", "subscriptionValue"}, ord \in {"desc", "asc"},
        pg \in 1..3, lim \in {1, 2} }

ListInit ==
    /\ store = ListPopulation(ListPop)
    /\ nextId = ListPop + 1
    /\ seeded = TRUE
    /\ now = 0
    /\ reqs = [p \in Procs |-> Idle]
    /\ resp = NoResponse
    /\ writes = [i \in 1..ListPop |-> 0]
    /\ scoreIn = NoScore
    /\ scoreOut = NoScore
    /\ listed = NoPages

\* list and delete requests, one after the other
ListNext ==
    \/ \E q \in ListQueries : Serial /\ ListFind(1, q)
    \/ ListCount(1)
    \/ \E id \in DOMAIN store : Serial /\ DeleteCustomer(1, id)

ListSpec == ListInit /\ [][ListNext]_vars


\* ------------------------------------------- ClientSpec: PredictionModel.tsx
\* a classifier whose upper band is churned
clientStatusChurned(churnRisk) ==
    IF churnRisk >= HighCut THEN "churned"
    ELSE IF churnRisk >= LowCut THEN "at_risk"
    ELSE "active"

\* runPredictions: status: churnRisk >= 0.7 ? 'at_risk' : churnRisk >= 0.3 ?
\* 'at_risk' : 'active'
clientStatus(churnRisk) ==
    IF churnRisk >= HighCut THEN "at_risk"
    ELSE IF churnRisk >= LowCut THEN "at_risk"
    ELSE "active"

\* runPredictions: const riskLevel = ...
clientRiskLevel(churnRisk) ==
    IF churnRisk < LowCut THEN "low"
    ELSE IF churnRisk < HighCut THEN "medium"
    ELSE "high"

\* scores in [0,1]: every hundredth, and the two cutoffs with their
\* neighbours
ClientRisk ==
    { (k * Scale) \div 100 : k \in 0..100 }
    \cup { LowCut - 1, LowCut + 1, HighCut - 1, HighCut + 1 }

ClientInit ==
    /\ store = [i \in Ids |-> Absent]
    /\ nextId = 1
    /\ seeded = FALSE
    /\ now = 0
    /\ reqs = [p \in Procs |-> Idle]
    /\ resp = NoResponse
    /\ writes = [i \in Ids |-> 0]
    /\ scoreIn \in { [kind |-> "client", customer |-> SchemaDefaults,
                      churnRisk |-> r] : r \in ClientRisk }
    /\ scoreOut = NoScore
    /\ listed = NoPages

\* the map callback of runPredictions on a customer whose score is the input
ClientStep ==
    /\ scoreIn.kind = "client" /\ scoreOut = NoScore
    /\ scoreOut' = [risk      |-> scoreIn.churnRisk,
                    status    |-> clientStatus(scoreIn.churnRisk),
                    riskLevel |-> clientRiskLevel(scoreIn.churnRisk)]
    /\ UNCHANGED <<store, nextId, seeded, now, reqs, resp, writes, scoreIn, listed>>

ClientNext == ClientStep

ClientSpec == ClientInit /\ [][ClientNext]_vars


\* ------------------------------------------- RetireSpec: churned customers
\* serial bulk, predict and update requests on a store of BulkPop customers;
\* the updates can replace the scored fields of a churned customer by
\* values that score 0.5, and set a status

\* a PUT body whose fields score 0.5
BodyRecovered ==
    [subscriptionValue |-> 10000, contractLength |-> 36, loginFrequency |-> 30,
     supportTickets |-> 0,
     features |-> [daysSinceLastLogin |-> 0, productUsage |-> 100,
                   supportSatisfaction |-> 10]]

RetireBodies == { BodyRecovered, [status |-> "active"], [status |-> "churned"] }

RetireInit == PopulatedInit(BulkPop)

RetireNext ==
    \/ \E id \in DOMAIN store : Serial /\ PredictFind(1, id)
    \/ PredictCompute(1)
    \/ PredictSave(1)
    \/ Serial /\ BulkFind(1)
    \/ BulkCompute(1)
    \/ \E id \in DOMAIN store : BulkSave(1, id)
    \/ \E id \in DOMAIN store, body \in RetireBodies :
            Serial /\ UpdateCustomer(1, id, body)

RetireSpec == RetireInit /\ [][RetireNext]_vars


\* ------------------------------------------- SnapshotSpec: summary and writes
\* one handler computes summaries while a second one deletes, predicts and
\* recomputes in bulk, interleaved at the awaits, on a store of SnapPop
\* customers
SnapPop == 3

SnapshotInit ==
    /\ store \in AnalyticsStores(SnapPop)
    /\ nextId = SnapPop + 1
    /\ seeded = TRUE
    /\ now = 0
    /\ reqs = [p \in Procs |-> Idle]
    /\ resp = NoResponse
    /\ writes = [i \in 1..SnapPop |-> 0]
    /\ scoreIn = NoScore
    /\ scoreOut = NoScore
    /\ listed = NoPages

SnapshotNext ==
    \/ AnalyticsTotal(1)
    \/ AnalyticsActive(1)
    \/ AnalyticsAtRisk(1)
    \/ AnalyticsChurned(1)
    \/ AnalyticsAverages(1)
    \/ AnalyticsBuckets(1)
    \/ AnalyticsTrends(1)
    \/ \E id \in DOMAIN store : DeleteCustomer(2, id)
    \/ \E id \in DOMAIN store : PredictFind(2, id)
    \/ PredictCompute(2)
    \/ PredictSave(2)
    \/ BulkFind(2)
    \/ BulkCompute(2)
    \/ \E id \in DOMAIN store : BulkSave(2, id)

SnapshotSpec == SnapshotInit /\ [][SnapshotNext]_vars


\* =================================================================== claims
Last(seq) == seq[Len(seq)]

IsPrefix(a, b) == Len(a) <= Len(b) /\ \A i \in 1..Len(a) : a[i] = b[i]

\* the status that the cutoffs 0.3 and 0.7 assign to a score
StatusOf(r) ==
    IF 10 * r < 3 * Scale THEN "active"
    ELSE IF 10 * r < 7 * Scale THEN "at_risk" ELSE "churned"

\* the risk level that goes with a status
LevelOf(status) ==
    IF status = "active" THEN "low"
    ELSE IF status = "at_risk" THEN "medium" ELSE "high"

\* the inputs of the score
Scored(c) == <<c.subscriptionValue, c.supportTickets, c.loginFrequency,
               c.contractLength, c.features>>

\* this step is a fulfilled save() of predict or bulk on customer id
Wrote(id) == writes'[id] = writes[id] + 1

\* ---- C1 -------------------------------------------------------------------
\* C1 (as claimed): in every reachable state the stored status of every
\* customer is the classifier applied to its stored risk score: active iff
\* risk < 0.3, at_risk iff 0.3 <= risk < 0.7, churned iff risk >= 0.7.
C1_StatusDerivedFromRisk ==
    \A id \in Present : store[id].status = StatusOf(store[id].churnRisk)

\* ---- C2 -------------------------------------------------------------------
\* C2: the score that calculateChurnRisk returns lies in [0,1] for every
\* combination of inputs, and so does the stored risk and every recorded
\* score of a customer written through create, predict or bulk.
C2_RiskInUnitInterval ==
    /\ scoreOut # NoScore => scoreOut.risk >= 0 /\ scoreOut.risk <= Scale
    /\ \A id \in Present :
        /\ store[id].churnRisk >= 0 /\ store[id].churnRisk <= Scale
        /\ \A i \in 1..Len(store[id].predictions) :
            /\ store[id].predictions[i].churnProbability >= 0
            /\ store[id].predictions[i].churnProbability <= Scale

\* a customer whose sum exceeds 1 was created and scored again: clamped to 1
C2_Witness ==
    \E id \in Present :
        /\ RawRisk(store[id]) > Scale
        /\ store[id].churnRisk = Scale
        /\ Len(store[id].predictions) >= 1
        /\ Last(store[id].predictions).churnProbability = Scale

\* ---- C3 -------------------------------------------------------------------
\* C3: for every score r in [0,1], the cutoffs included, determineStatus
\* returns active iff r < 0.3, at_risk iff 0.3 <= r < 0.7, churned iff
\* r >= 0.7.
C3_StatusCutoffs ==
    scoreOut # NoScore =>
        /\ scoreOut.status = "active"  <=> 10 * scoreOut.risk < 3 * Scale
        /\ scoreOut.status = "at_risk" <=> /\ 10 * scoreOut.risk >= 3 * Scale
                                           /\ 10 * scoreOut.risk < 7 * Scale
        /\ scoreOut.status = "churned" <=> 10 * scoreOut.risk >= 7 * Scale

\* the score exactly 0.7 was classified, as churned
C3_Witness ==
    /\ scoreIn.kind = "classify"
    /\ scoreOut # NoScore
    /\ 10 * scoreOut.risk = 7 * Scale
    /\ scoreOut.status = "churned"

\* ---- C4 -------------------------------------------------------------------
\* C4 (as claimed): every step on a customer that still exists leaves its
\* previous prediction history as a prefix of the new one.
C4_HistoryOnlyGrows ==
    [][\A id \in DOMAIN store :
          store[id] # Absent /\ store'[id] # Absent =>
              IsPrefix(store[id].predictions, store'[id].predictions)]_vars

\* ---- C5 -------------------------------------------------------------------
\* C5: however predict and bulk calls on a customer interleave, its history
\* is as long as it was at the start plus the number of fulfilled saves for
\* that customer: no record is lost and none is duplicated.
C5_OneRecordPerWrite ==
    \A id \in Present :
        Len(store[id].predictions)
            = Len(Population(RacePop)[id].predictions) + writes[id]

\* calls that overlapped have all completed: more saves were fulfilled for
\* one customer than calls can start one after the other, by bulk (a record
\* without factors) and by predict (a record with factors)
C5_Witness ==
    /\ \A p \in Procs : Free(p)
    /\ \E id \in Present :
        LET h == store[id].predictions
        IN  /\ writes[id] > MaxHist
            /\ Len(h) = writes[id]
            /\ \E i, j \in 1..Len(h) : h[i].factors = <<>> /\ h[j].factors # <<>>

\* ---- C6 -------------------------------------------------------------------
\* C6: a predict on a customer that was scored before, with its features and
\* attributes unchanged since, records the same score and risk level as the
\* previous record, and the same factors as the previous predict record (a
\* bulk record carries no factors); the stored risk and status stay as they
\* were.
C6_PredictIdempotent ==
    [][\A p \in Procs :
          LET id == reqs[p].id
          IN  (/\ reqs[p].op = "predict" /\ reqs[p].pc = "saving"
               /\ reqs'[p] = Idle
               /\ Wrote(id)
               /\ writes[id] >= 1)
              => LET prev == Last(store[id].predictions)
                     new  == Last(store'[id].predictions)
                 IN  /\ Len(store'[id].predictions) = Len(store[id].predictions) + 1
                     /\ new.churnProbability = prev.churnProbability
                     /\ new.riskLevel = prev.riskLevel
                     /\ new.factors = prev.factors \/ prev.factors = <<>>
                     /\ store'[id].churnRisk = store[id].churnRisk
                     /\ store'[id].status = store[id].status]_vars

\* two predicts were recorded for a customer with factors: same record twice
C6_Witness ==
    \E id \in Present :
        LET h == store[id].predictions
        IN  /\ Len(h) >= 2
            /\ h[1].factors # <<>>
            /\ h[2].factors = h[1].factors
            /\ h[2].churnProbability = h[1].churnProbability

\* ---- C7 -------------------------------------------------------------------
\* C7 (as claimed): a step that changes the features or the commercial
\* attributes of a stored customer leaves its stored risk equal to the score
\* of the new values and its status equal to the classifier of that risk.
C7_UpdateRecomputes ==
    [][\A id \in DOMAIN store :
          (/\ store[id] # Absent /\ store'[id] # Absent
           /\ Scored(store'[id]) # Scored(store[id]))
          => /\ store'[id].churnRisk = calculateChurnRisk(store'[id])
             /\ store'[id].status = StatusOf(store'[id].churnRisk)]_vars

\* ---- C8 -------------------------------------------------------------------
\* C8 (as claimed): fetch, update, delete and predict addressed to an id that
\* resolves to no customer answer 404 and leave the store unchanged.
C8_NotFound ==
    [][\A id \in RequestIds :
          (/\ Lookup(id) = Absent
           /\ Serial
           /\ \/ GetCustomer(1, id)
              \/ \E body \in UpdateBodies : UpdateCustomer(1, id, body)
              \/ DeleteCustomer(1, id)
              \/ PredictFind(1, id))
          => resp'.code = 404 /\ store' = store]_vars

\* ---- C9 -------------------------------------------------------------------
\* C9: after a fulfilled save of predict or bulk, the last record of the
\* customer carries the score of its features and attributes, the stored
\* risk is that score, the record's level goes with the stored status (low
\* with active, medium with at_risk, high with churned) and the model
\* version is '1.0'.
C9_RecordMatchesCustomer ==
    [][\A id \in DOMAIN store :
          Wrote(id) =>
              LET r == Last(store'[id].predictions)
              IN  /\ r.churnProbability = calculateChurnRisk(store[id])
                  /\ store'[id].churnRisk = r.churnProbability
                  /\ r.riskLevel = LevelOf(store'[id].status)
                  /\ store'[id].status = StatusOf(store'[id].churnRisk)
                  /\ r.modelVersion = "1.0"]_vars

\* a customer stored at risk got ten tickets by PUT and was then predicted:
\* score 0.7, level high, status churned
C9_Witness ==
    \E id \in Present :
        /\ store[id].supportTickets = 10
        /\ store[id].subscriptionValue = 10000
        /\ writes[id] >= 1
        /\ Len(store[id].predictions) >= 1
        /\ Last(store[id].predictions).riskLevel = "high"
        /\ Last(store[id].predictions).churnProbability = store[id].churnRisk
        /\ store[id].status = "churned"

Saved(p, id) ==
    /\ reqs[p].op = "bulk" /\ reqs[p].pc = "saving"
    /\ id \in DOMAIN reqs[p].ops
    /\ id \notin DOMAIN reqs'[p].ops

\* C11 (as claimed): a batch in which a write has failed is all-or-nothing:
\* once the failure of one customer's write was reported, no write of another
\* customer of the same batch is committed.
C11_AllOrNothing ==
    [][ \A id \in DOMAIN store :
            (Saved(1, id) /\ reqs[1].code = 500) => writes' = writes ]_vars

\* C11 (amended): when a customer's write fails the batch reports an internal
\* failure at that first failure and changes nothing in the store, but the
\* batch is not all-or-nothing: the write of every other selected customer
\* that is still stored is committed, after the failure as well as before it.
C11_FailureReportedOthersCommitted ==
    [][ \A id \in DOMAIN store :
            Saved(1, id) =>
                IF store[id] = Absent
                THEN /\ store' = store /\ writes' = writes
                     /\ reqs[1].code # 500 => resp' = [code |-> 500, count |-> 0]
                     /\ reqs'[1].pc = "saving" => reqs'[1].code = 500
                ELSE /\ Wrote(id)
                     /\ store'[id].predictions =
                            Append(store[id].predictions, reqs[1].ops[id].push)
                     /\ store'[id].churnRisk = reqs[1].ops[id].churnRisk
                     /\ \A other \in DOMAIN store \ {id} :
                            store'[other] = store[other] ]_vars

\* a batch has ended with the internal failure as its response: customer 3
\* was deleted under it, and the write of customer 2 was committed
C11_Witness ==
    /\ Free(1) /\ resp = [code |-> 500, count |-> 0]
    /\ store[3] = Absent
    /\ store[2] # Absent /\ writes[2] >= 1 /\ Len(store[2].predictions) >= 1

\* C12: a step of a batch never shortens or alters the history of a stored
\* customer and never takes back a committed risk, whether one of its writes
\* failed or not; and a batch in which a write failed never answers 200 with
\* a processed count: from the failing save on, the only response it sends is
\* the internal failure (a 200 with count 0 in between is the answer to a
\* delete request).
C12_FailureIndependentAndObservable ==
    [][ \A id \in DOMAIN store :
            Saved(1, id) =>
                /\ \A other \in DOMAIN store :
                        store[other] # Absent =>
                            /\ store'[other] # Absent
                            /\ IsPrefix(store[other].predictions,
                                        store'[other].predictions)
                            /\ writes'[other] >= writes[other]
                            /\ other # id => store'[other] = store[other]
                /\ (store[id] = Absent \/ reqs[1].code = 500) =>
                        /\ ~(resp'.code = 200 /\ resp'.count > 0)
                        /\ resp' # resp => resp' = [code |-> 500, count |-> 0] ]_vars

\* a batch whose write of customer 3 was rejected is still saving: the
\* update of customer 2 that it committed is in the store, the write of
\* customer 4 is pending
C12_Witness ==
    /\ reqs[1].op = "bulk" /\ reqs[1].pc = "saving" /\ reqs[1].code = 500
    /\ DOMAIN reqs[1].ops = {4}
    /\ store[3] = Absent
    /\ store[2] # Absent /\ writes[2] >= 1
    /\ Last(store[2].predictions).churnProbability = store[2].churnRisk

IsReport == "summary" \in DOMAIN resp

RECURSIVE CountSum(_, _)
CountSum(dist, ids) ==
    IF ids = {} THEN 0
    ELSE LET b == CHOOSE x \in ids : TRUE
         IN  dist[b].count + CountSum(dist, ids \ {b})

RiskIn(lo, hi) == {i \in Present : store[i].churnRisk >= lo /\ store[i].churnRisk < hi}

WithStatus(st) == {i \in Present : store[i].status = st}

BucketCustomers(b) ==
    IF b \in DOMAIN resp.riskDistribution
    THEN resp.riskDistribution[b].customers ELSE {}

\* C14: in a summary of a store that is not written meanwhile, the counts of
\* the histogram buckets, the overflow bucket included, add up to the total
\* population count, which is the number of stored customers.
C14_BucketsSumToTotal ==
    IsReport =>
        /\ CountSum(resp.riskDistribution, DOMAIN resp.riskDistribution)
                = resp.summary.totalCustomers
        /\ resp.summary.totalCustomers = Cardinality(Present)

\* a summary of all the customers, with the overflow bucket and the three
\* ranges populated
C14_Witness ==
    /\ IsReport
    /\ resp.summary.totalCustomers = AnalyticsPop
    /\ DOMAIN resp.riskDistribution = {"0", "0.3", "0.7", "other"}

\* C15 (as claimed): the first bucket holds exactly the customers with risk
\* in [0, 0.3), the second those in [0.3, 0.7), the third those in
\* [0.7, 1.0] with 1.0 included, and the overflow bucket only those outside
\* [0, 1].
C15_HistogramRanges ==
    IsReport =>
        /\ BucketCustomers("0")     = RiskIn(0, LowCut)
        /\ BucketCustomers("0.3")   = RiskIn(LowCut, HighCut)
        /\ BucketCustomers("0.7")   = RiskIn(HighCut, Scale + 1)
        /\ BucketCustomers("other") =
                {i \in Present : store[i].churnRisk < 0 \/ store[i].churnRisk > Scale}

\* C16: the summary reports the number of stored customers and the number
\* with each status; the churn rate is churned / total x 100 to two
\* decimals and lies between 0 and 100; the averages are the means of risk,
\* subscription value and support tickets; for an empty store all of them
\* are 0.
C16_SummaryCounts ==
    IsReport =>
        LET sm    == resp.summary
            total == Cardinality(Present)
            IsMean(avg, field) ==
                avg.den > 0 /\ avg.num * total = SumOf(Present, field) * avg.den
        IN  /\ sm.totalCustomers   = total
            /\ sm.activeCustomers  = Cardinality(WithStatus("active"))
            /\ sm.atRiskCustomers  = Cardinality(WithStatus("at_risk"))
            /\ sm.churnedCustomers = Cardinality(WithStatus("churned"))
            /\ IF total = 0
               THEN /\ sm.churnRate = 0
                    /\ sm.avgChurnRisk.num = 0
                    /\ sm.avgSubscriptionValue.num = 0
                    /\ sm.avgSupportTickets.num = 0
               ELSE /\ sm.churnRate >= 0 /\ sm.churnRate <= 10000
                    /\ 2 * (sm.churnRate * total - sm.churnedCustomers * 10000) <= total
                    /\ 2 * (sm.churnedCustomers * 10000 - sm.churnRate * total) <= total
                    /\ IsMean(sm.avgChurnRisk, "churnRisk")
                    /\ IsMean(sm.avgSubscriptionValue, "subscriptionValue")
                    /\ IsMean(sm.avgSupportTickets, "supportTickets")

\* a summary of three customers of which one is churned, one at risk and
\* one active: the churn rate is 33.33
C16_Witness ==
    /\ IsReport
    /\ resp.summary.totalCustomers = 3
    /\ resp.summary.churnedCustomers = 1
    /\ resp.summary.atRiskCustomers = 1
    /\ resp.summary.activeCustomers = 1
    /\ resp.summary.churnRate = 3333

\* year and month as one number
MonthNo(k) == k.year * 12 + k.month

\* C17: the trend has one group for every creation month of a stored
\* customer up to twelve groups, each with the number of customers created
\* in that month, in strictly ascending order of year and month; the months
\* left out are later than every month returned.
C17_MonthlyTrend ==
    IsReport =>
        LET t      == resp.monthlyTrends
            months == {store[i].createdAt : i \in Present}
            kept   == {t[n].id : n \in 1..Len(t)}
        IN  /\ Len(t) = IF Cardinality(months) > 12 THEN 12 ELSE Cardinality(months)
            /\ kept \subseteq months
            /\ \A n \in 1..Len(t) :
                    t[n].newCustomers =
                        Cardinality({i \in Present : store[i].createdAt = t[n].id})
            /\ \A n, m \in 1..Len(t) :
                    n < m => MonthNo(t[n].id) < MonthNo(t[m].id)
            /\ \A o \in months \ kept, k \in kept : MonthNo(k) < MonthNo(o)

\* customers of thirteen months are stored, of two years; the trend has
\* twelve groups
C17_Witness ==
    /\ IsReport
    /\ Cardinality({store[i].createdAt : i \in Present}) = 13
    /\ Len(resp.monthlyTrends) = 12
    /\ resp.monthlyTrends[1].id.year < resp.monthlyTrends[12].id.year

\* ---------------------------------------------------------------- C18..C20
\* the scorer has run on customer c
ScoredInput(c) ==
    scoreIn.kind = "score" /\ scoreIn.customer = c /\ scoreOut # NoScore

NoContribution(c) ==
    \A f \in DOMAIN Contribution(c) : Contribution(c)[f] = 0

\* C18 (as claimed): for the customer with 0 days since the last login, 0
\* tickets, login frequency 30, contract length 36, satisfaction 10,
\* subscription value 10000 and product usage 100 every contribution is
\* zero, the score is exactly 0.5 and the status derived from it is active.
C18_NeutralIsActive ==
    ScoredInput(ScenarioNeutral) =>
        /\ NoContribution(ScenarioNeutral)
        /\ 2 * scoreOut.risk = Scale
        /\ scoreOut.status = "active"

\* C18 (amended): for that customer every contribution is zero and the
\* score is exactly 0.5; the status derived from 0.5 is at_risk, for the
\* scorer alone and for the customer as POST / stores it.
C18_NeutralIsAtRisk ==
    /\ ScoredInput(ScenarioNeutral) =>
            /\ NoContribution(ScenarioNeutral)
            /\ 2 * scoreOut.risk = Scale
            /\ scoreOut.status = "at_risk"
    /\ (scoreIn.kind = "score" /\ scoreIn.customer = ScenarioNeutral
        /\ store[1] # Absent) =>
            /\ 2 * store[1].churnRisk = Scale
            /\ store[1].status = "at_risk"

\* the scorer has run on that customer, and the customer was created
C18_Witness ==
    /\ ScoredInput(ScenarioNeutral)
    /\ scoreOut.status = "at_risk"
    /\ store[1] # Absent /\ store[1].status = "at_risk"

\* C19: for the customer with 30 days since the last login, 10 tickets,
\* login frequency 0, contract length 0, satisfaction 1, subscription value
\* 0 and product usage 0 the sum exceeds 1, the score is exactly 1.0, the
\* status is churned and the risk level is high.
C19_WorstIsChurned ==
    ScoredInput(ScenarioWorst) =>
        /\ RawRisk(ScenarioWorst) > Scale
        /\ scoreOut.risk = Scale
        /\ scoreOut.status = "churned"
        /\ scoreOut.riskLevel = "high"

C19_Witness ==
    /\ ScoredInput(ScenarioWorst)
    /\ scoreOut.risk = Scale /\ scoreOut.riskLevel = "high"

\* the specified rule: clamp(0.5 + the seven contributions, 0, 1) with
\* every ratio capped at 1 before it is scaled by its weight
SpecifiedRisk(c) ==
    LET sum == 5 * (Scale \div 10)
               + Term(Min(c.features.daysSinceLastLogin, 30), 30, 25)
               + Term(Min(c.supportTickets, 10), 10, 20)
               + Term(30 - Min(c.loginFrequency, 30), 30, 15)
               + Term(36 - Min(c.contractLength, 36), 36, 10)
               + Term(10 - Min(c.features.supportSatisfaction, 10), 10, 15)
               + Term(10000 - Min(c.subscriptionValue, 10000), 10000, 10)
               + Term(100 - Min(c.features.productUsage, 100), 100, 5)
    IN  IF sum < 0 THEN 0 ELSE IF sum > Scale THEN Scale ELSE sum

\* C20 (as claimed): for every input the score is the specified rule, and
\* every single contribution lies between 0 and its weight; the
\* contribution of the days since the last login never exceeds 0.25.
C20_ScoreIsCappedRule ==
    (scoreIn.kind = "score" /\ scoreOut # NoScore) =>
        LET c == scoreIn.customer
        IN  /\ scoreOut.risk = SpecifiedRisk(c)
            /\ \A f \in DOMAIN Contribution(c) :
                    /\ Contribution(c)[f] >= 0
                    /\ 100 * Contribution(c)[f] <= weights[f] * Scale

\* ---------------------------------------------------------------- C21
FactorNames ==
    <<"Inactive user", "High support volume", "Low satisfaction", "Low engagement">>

\* the rule of one factor
Fires(c, name) ==
    CASE name = "Inactive user"       -> c.features.daysSinceLastLogin > 14
      [] name = "High support volume" -> c.supportTickets > 5
      [] name = "Low satisfaction"    -> c.features.supportSatisfaction < 6
      [] name = "Low engagement"      -> c.loginFrequency < 5

FiringFactors(c) ==
    LET Test(name) == Fires(c, name) IN SelectSeq(FactorNames, Test)

\* C21: for every customer the explainer returns exactly the factors whose
\* rules fire, in the fixed order of the rules, possibly none; the record a
\* predict appends carries that list.
C21_FactorsAreFiringRules ==
    /\ (scoreIn.kind = "score" /\ scoreOut # NoScore) =>
            scoreOut.factors = FiringFactors(scoreIn.customer)
    /\ \A p \in Procs :
            (reqs[p].op = "predict" /\ reqs[p].pc = "saving") =>
                reqs[p].ops[reqs[p].id].push.factors = FiringFactors(scoreIn.customer)

\* the explainer has run on 20 days, 6 tickets, satisfaction 5 and login
\* frequency 3, and a predict of that customer is about to save its record
C21_Witness ==
    /\ ScoredInput(ScenarioAllFactors)
    /\ scoreOut.factors = FactorNames
    /\ reqs[1].op = "predict" /\ reqs[1].pc = "saving"
    /\ reqs[1].ops[1].push.factors = FactorNames

\* ---------------------------------------------------------------- C22
\* C22 (as claimed): a customer that enters the store, through POST / or
\* through the seeding at startup, is stored with the risk that the scorer
\* gives for its own features and attributes and with the status that the
\* cutoffs give for that risk, whatever risk and status the request body
\* carried.
C22_EntersScored ==
    [][ \A id \in DOMAIN store :
            (store[id] = Absent /\ store'[id] # Absent) =>
                /\ store'[id].churnRisk = calculateChurnRisk(store'[id])
                /\ store'[id].status = StatusOf(store'[id].churnRisk)
                /\ store'[id].status \in {"active", "at_risk", "churned"} ]_vars

\* ---------------------------------------------------------------- C23
\* two emails are the same up to the case of their letters
SameEmail(a, b) ==
    /\ Len(a) = Len(b)
    /\ \A i \in 1..Len(a) :
            \/ a[i] = b[i]
            \/ {a[i], b[i]} \in {{"a", "A"}, {"b", "B"}}

\* C23: in every reachable state no two stored customers have emails that
\* are the same up to letter case; a customer is added only with an email
\* that no stored customer has in any letter case, and a request answered
\* 400 (here: its email is taken) adds no customer and changes none.
C23_UniqueEmail ==
    /\ [](\A i, j \in Present :
            i # j => ~SameEmail(store[i].email, store[j].email))
    /\ [][ /\ \A id \in DOMAIN store :
                (store[id] = Absent /\ store'[id] # Absent) =>
                    \A other \in Present :
                        ~SameEmail(store'[id].email, store[other].email)
           /\ (resp'.code = 400 /\ resp # resp') => store' = store ]_vars

\* two customers are stored and the request handled last was answered 400:
\* both letters are taken
C23_Witness ==
    /\ Cardinality(Present) = 2
    /\ resp.code = 400
    /\ \E i \in Present : store[i].email = <<"a">>
    /\ \E i \in Present : store[i].email = <<"b">>

\* ---------------------------------------------------------------- C24
InRange(doc) ==
    /\ doc.subscriptionValue >= 0
    /\ doc.contractLength >= 1
    /\ doc.supportTickets >= 0
    /\ doc.loginFrequency >= 0
    /\ doc.features.supportSatisfaction >= 1
    /\ doc.features.supportSatisfaction <= 10

IsPage == "pagination" \in DOMAIN resp

\* the page is what the list operation promises for its own query
PageAsRequested ==
    LET q        == listed.query
        page     == resp.customers
        pg       == resp.pagination
        matching == { i \in Present :
                        /\ q.status # "" => store[i].status = q.status
                        /\ q.search # <<>> =>
                            \E f \in {"name", "email", "company"} :
                                RegexI(store[i][f], q.search) }
    IN  /\ Len(page) <= pg.limit
        /\ \A n \in 1..Len(page) : page[n] \in matching
        /\ \A n, m \in 1..Len(page) :
                n < m =>
                    IF q.sortOrder = "desc"
                    THEN store[page[n]][q.sortBy] >= store[page[m]][q.sortBy]
                    ELSE store[page[n]][q.sortBy] <= store[page[m]][q.sortBy]
        /\ pg.total = Cardinality(matching)
        /\ pg.pages * pg.limit >= pg.total
        /\ (pg.pages - 1) * pg.limit < pg.total \/ (pg.pages = 0 /\ pg.total = 0)

\* C25 (as claimed): a page has at most limit customers, all matching the
\* status filter and the search, in the requested order; total is the
\* number of matching customers and pages is ceil(total / limit); and the
\* pages 1..pages of one query, taken over an unchanged store, together
\* contain every matching customer.
C25_ListPages ==
    IsPage =>
        /\ PageAsRequested
        /\ (listed.store = store /\ listed.pages = 1..resp.pagination.pages) =>
                listed.ids = Matching(listed.query)

\* ---------------------------------------------------------------- C26
\* C26: the classifier of the presentation layer never assigns churned; it
\* assigns active to a score below 0.3 and at_risk to every other score, so
\* it agrees with the server classifier below 0.7 and differs from it from
\* 0.7 on, where it labels the same score with the risk level high.
C26_ClientNeverChurned ==
    scoreOut # NoScore =>
        LET r == scoreOut.risk
        IN  /\ scoreOut.status # "churned"
            /\ scoreOut.status = (IF 10 * r < 3 * Scale THEN "active" ELSE "at_risk")
            /\ 10 * r < 7 * Scale => scoreOut.status = determineStatus(r)
            /\ 10 * r >= 7 * Scale =>
                    /\ scoreOut.status # determineStatus(r)
                    /\ scoreOut.riskLevel = "high"

\* the score exactly 0.7 was classified by the client: at_risk, level high
C26_Witness ==
    /\ scoreIn.kind = "client"
    /\ scoreOut # NoScore
    /\ 10 * scoreOut.risk = 7 * Scale
    /\ scoreOut.status = "at_risk"
    /\ scoreOut.riskLevel = "high"

\* ---------------------------------------------------------------- C27
RECURSIVE NonDecreasing(_)
NonDecreasing(dates) ==
    \/ Len(dates) < 2
    \/ /\ dates[1] <= dates[2]
       /\ NonDecreasing(Tail(dates))

HistoryDates(id) == [k \in 1..Len(store[id].predictions) |-> store[id].predictions[k].date]

\* C27: in every reachable state the prediction history of each customer is
\* ordered by creation time: the timestamps of its records are non-decreasing
\* in sequence order, also when single predictions and bulk recomputations
\* of one customer interleave.
C27_HistoryOrdered ==
    \A id \in Present : NonDecreasing(HistoryDates(id))

\* ---------------------------------------------------------------- C28
\* the validated ranges hold, and the two unvalidated features are not
\* negative
NonNegativeInput(c) ==
    /\ InRange(c)
    /\ c.features.daysSinceLastLogin >= 0
    /\ c.features.productUsage >= 0

\* C28: for every customer within the validated ranges whose days since the
\* last login and product usage are not negative, no contribution is
\* negative and the score is at least 0.5, so the status derived from it is
\* at_risk or churned; no such customer stored by POST / and scored again by
\* a single prediction or a bulk recomputation is ever active.
C28_NeverActive ==
    /\ (scoreIn.kind = "score" /\ scoreOut # NoScore
        /\ NonNegativeInput(scoreIn.customer)) =>
            /\ \A f \in DOMAIN Contribution(scoreIn.customer) :
                    Contribution(scoreIn.customer)[f] >= 0
            /\ 2 * scoreOut.risk >= Scale
            /\ scoreOut.status \in {"at_risk", "churned"}
    /\ \A id \in Present :
            NonNegativeInput(store[id]) =>
                /\ 2 * store[id].churnRisk >= Scale
                /\ store[id].status \in {"at_risk", "churned"}

\* such a customer, with contributions above zero, was scored, created and
\* scored again by a request
C28_Witness ==
    /\ scoreIn.kind = "score" /\ scoreOut # NoScore
    /\ NonNegativeInput(scoreIn.customer)
    /\ ~NoContribution(scoreIn.customer)
    /\ scoreOut.status = "at_risk"
    /\ 1 \in Present /\ writes[1] >= 1
    /\ NonNegativeInput(store[1])
    /\ store[1].status = "at_risk"
    /\ store[1].churnRisk = scoreOut.risk

\* ---------------------------------------------------------------- C29
\* the steps of a bulk recomputation of the one handler of RetireSpec
BulkStep == reqs[1].op = "bulk" \/ reqs'[1].op = "bulk"

Churned(id) == store[id] # Absent /\ store[id].status = "churned"

StatusSum(sm) == sm.activeCustomers + sm.atRiskCustomers + sm.churnedCustomers

\* nothing was written since the store was populated
NeverWritten ==
    /\ Present = DOMAIN store
    /\ \A id \in DOMAIN store : writes[id] = 0

\* C30: the summary reads the total and the three per-status counts in four
\* separate steps, each returning the count over the store as it is at that
\* step, and the statuses partition the store in every state; so a summary
\* of a store that was not written has active + at_risk + churned = total,
\* while the counts of one summary may stem from different store states
\* when a delete, a prediction or a bulk recomputation writes between them.
C30_CountsReadSeparately ==
    /\ [](/\ Cardinality(Present) =
                Cardinality(WithStatus("active"))
                + Cardinality(WithStatus("at_risk"))
                + Cardinality(WithStatus("churned"))
          /\ (IsReport /\ NeverWritten) =>
                /\ StatusSum(resp.summary) = resp.summary.totalCustomers
                /\ resp.summary.totalCustomers = Cardinality(Present))
    /\ [][ /\ (Free(1) /\ Reading(1, "active")') =>
                /\ reqs'[1].acc.totalCustomers = Cardinality(Present)
                /\ store' = store
           /\ (Reading(1, "active") /\ Reading(1, "at_risk")') =>
                /\ reqs'[1].acc.activeCustomers = Cardinality(WithStatus("active"))
                /\ reqs'[1].acc.totalCustomers = reqs[1].acc.totalCustomers
                /\ store' = store
           /\ (Reading(1, "at_risk") /\ Reading(1, "churned")') =>
                /\ reqs'[1].acc.atRiskCustomers = Cardinality(WithStatus("at_risk"))
                /\ reqs'[1].acc.activeCustomers = reqs[1].acc.activeCustomers
                /\ store' = store
           /\ (Reading(1, "churned") /\ Reading(1, "averages")') =>
                /\ reqs'[1].acc.churnedCustomers = Cardinality(WithStatus("churned"))
                /\ reqs'[1].acc.atRiskCustomers = reqs[1].acc.atRiskCustomers
                /\ store' = store
           /\ (Reading(1, "trends") /\ reqs'[1] = Idle) =>
                /\ resp'.summary.totalCustomers = reqs[1].acc.totalCustomers
                /\ resp'.summary.activeCustomers = reqs[1].acc.activeCustomers
                /\ resp'.summary.atRiskCustomers = reqs[1].acc.atRiskCustomers
                /\ resp'.summary.churnedCustomers = reqs[1].acc.churnedCustomers
         ]_vars

\* a returned summary whose three status counts do not add up to its total:
\* the second handler wrote between the reads
C30_Witness ==
    /\ IsReport
    /\ StatusSum(resp.summary) # resp.summary.totalCustomers
    /\ ~NeverWritten

====
